---- MODULE Spec2Model ----
(***************************************************************************)
(* Continuous collision detection of map-builder-3d: walking objects,      *)
(* obstacles, the per-object time-of-impact accumulator and the frame      *)
(* driver system_walking_default.                                          *)
(*                                                                         *)
(* Geometry is restricted to unit balls whose centres lie on the x axis    *)
(* and move along it (the layout of the repository's tests), two walking   *)
(* objects and one obstacle.  f32 values are                               *)
(* modelled by exact rationals <<n, d>> with d > 0 in lowest terms, and    *)
(* Option<T> by a sequence: None is <<>> and Some(x) is <<x>>.             *)
(***************************************************************************)
EXTENDS Integers, Sequences, FiniteSets, Bags, TLC

\* ------------------------------------------------------------------ bounds
MaxPos == 6
MaxVel == 2
MaxDt == 2
MaxFrames == 2

\* ---------------------------------------------------------- exact numbers
Abs(x) == IF x < 0 THEN -x ELSE x

RECURSIVE Gcd(_, _)
Gcd(a, b) == IF b = 0 THEN a ELSE Gcd(b, a % b)

Rat(n, d) ==
    LET s == IF d < 0 THEN -1 ELSE 1
        g == Gcd(Abs(n), Abs(d))
    IN  <<(s * n) \div g, (s * d) \div g>>

RatInt(n) == <<n, 1>>
RatLt(a, b) == a[1] * b[2] < b[1] * a[2]
RatLe(a, b) == a[1] * b[2] <= b[1] * a[2]
RatAdd(a, b) == Rat(a[1] * b[2] + b[1] * a[2], a[2] * b[2])
RatSub(a, b) == Rat(a[1] * b[2] - b[1] * a[2], a[2] * b[2])
RatScale(k, a) == Rat(k * a[1], a[2])
RatAbs(a) == <<Abs(a[1]), a[2]>>
\* f32::min on two ordinary numbers
RatMin(a, b) == IF RatLe(a, b) THEN a ELSE b

None == <<>>
Some(x) == <<x>>
IsSome(o) == o # None
Unwrap(o) == o[1]

\* ------------------------------------------------------------ the objects
\* The entities of the two queries: two walking objects and one obstacle.
Walkers == {1, 2}
Obstacles == {1}

Ball(r) == [kind |-> "Ball", radius |-> r]

\* ShapeType::Plane with unit normal (n,0,0): the half-space of the points
\* x with (x - position) * n <= 0
Plane(n) == [kind |-> "Plane", normal |-> n]

\* Variant of WalkingObject::new that starts the accumulator at Some(0.0)
WalkingObject_new_zero_toi(shape, nc3_position, nc3_velocity, shape_offset) ==
    [shape |-> shape,
     nc3_position |-> nc3_position,
     nc3_velocity |-> nc3_velocity,
     nc3_toi |-> Some(RatInt(0)),
     shape_offset |-> shape_offset]

\* WalkingObject::new: the accumulator starts empty
WalkingObject_new(shape, nc3_position, nc3_velocity, shape_offset) ==
    [shape |-> shape,
     nc3_position |-> nc3_position,
     nc3_velocity |-> nc3_velocity,
     nc3_toi |-> None,
     shape_offset |-> shape_offset]

\* ObstacleObject::new
ObstacleObject_new(shape, nc3_position) ==
    [shape |-> shape, nc3_position |-> nc3_position]

\* Variant of nc3_velocity that reports zero for every object
nc3_velocity_zero(obj) == 0

\* CollisionObject::nc3_velocity: a walking object reports its own velocity,
\* an obstacle (which has no such field) always reports zero
nc3_velocity(obj) ==
    IF "nc3_velocity" \in DOMAIN obj THEN obj.nc3_velocity ELSE 0

\* CollisionObject::nc3_position
nc3_position(obj) == obj.nc3_position

\* ---------------------------------------------------------- the TOI query
\* nc3::query::time_of_impact for two balls on the x axis under constant
\* linear velocities: the earliest t in [0, max_toi] at which the distance
\* of the centres is the sum of the radii.  Equal velocities give no
\* contact; shapes touching or overlapping at t = 0 give 0.
time_of_impact_ball_ball(pos1, vel1, shape1, pos2, vel2, shape2, max_toi) ==
    LET vel == vel1 - vel2
        center == RatSub(pos1, pos2)
        rsum == RatInt(shape1.radius + shape2.radius)
        dist == RatAbs(center)
        closing == IF center[1] > 0 THEN -vel ELSE vel
        toi == Rat(RatSub(dist, rsum)[1], RatSub(dist, rsum)[2] * Abs(vel))
    IN  IF vel = 0 THEN None
        ELSE IF RatLe(dist, rsum) THEN Some(RatInt(0))
        ELSE IF closing <= 0 THEN None
        ELSE IF RatLt(max_toi, toi) THEN None
        ELSE Some(toi)

\* the same for a plane and a ball: the earliest t in [0, max_toi] at which
\* the ball's point deepest along -normal lies on the plane
time_of_impact_plane_support_map(pos1, vel1, plane, pos2, vel2, other, max_toi) ==
    LET vel == vel2 - vel1
        dist == RatSub(RatScale(plane.normal, RatSub(pos2, pos1)),
                       RatInt(other.radius))
        closing == -(vel * plane.normal)
        toi == Rat(dist[1], dist[2] * Abs(vel))
    IN  IF vel = 0 THEN None
        ELSE IF RatLe(dist, RatInt(0)) THEN Some(RatInt(0))
        ELSE IF closing <= 0 THEN None
        ELSE IF RatLt(max_toi, toi) THEN None
        ELSE Some(toi)

\* DefaultTOIDispatcher has no algorithm for two planes (a plane is neither
\* a ball, a support map nor a composite shape): Err(Unsupported)
Unsupported(shape1, shape2) == shape1.kind = "Plane" /\ shape2.kind = "Plane"

\* nc3::query::time_of_impact on a supported pair, by the shapes' kinds
time_of_impact(pos1, vel1, shape1, pos2, vel2, shape2, max_toi) ==
    IF shape1.kind = "Plane"
    THEN time_of_impact_plane_support_map(pos1, vel1, shape1,
                                          pos2, vel2, shape2, max_toi)
    ELSE IF shape2.kind = "Plane"
    THEN time_of_impact_plane_support_map(pos2, vel2, shape2,
                                          pos1, vel1, shape1, max_toi)
    ELSE time_of_impact_ball_ball(pos1, vel1, shape1, pos2, vel2, shape2, max_toi)

\* Variant of the query that ignores the caller's horizon and asks the
\* backend with a horizon above every time of impact (std::f32::MAX in
\* Collide::get_collition_with)
get_collision_with_unbounded(self, other, max_toi) ==
    time_of_impact(nc3_position(self), nc3_velocity(self), self.shape,
                   nc3_position(other), nc3_velocity(other), other.shape,
                   RatInt(1000000))

\* Variant of the query that clamps a later impact to the horizon instead
\* of dropping it
get_collision_with_clamped(self, other, max_toi) ==
    LET toi == time_of_impact(nc3_position(self), nc3_velocity(self), self.shape,
                              nc3_position(other), nc3_velocity(other), other.shape,
                              RatInt(1000000))
    IN  IF toi = None THEN None ELSE Some(RatMin(Unwrap(toi), max_toi))

\* Variant of the query that takes the other object as standing still
get_collision_with_static_other(self, other, max_toi) ==
    time_of_impact(nc3_position(self), nc3_velocity(self), self.shape,
                   nc3_position(other), 0, other.shape, max_toi)

\* Variant of the query whose horizon is exclusive: an impact exactly at
\* max_toi is dropped
get_collision_with_exclusive(self, other, max_toi) ==
    LET toi == time_of_impact(nc3_position(self), nc3_velocity(self), self.shape,
                              nc3_position(other), nc3_velocity(other), other.shape,
                              max_toi)
    IN  IF toi # None /\ Unwrap(toi) = max_toi THEN None ELSE toi

\* Variant of the query that takes shapes already touching at t = 0 as not
\* colliding
get_collision_with_skips_touching(self, other, max_toi) ==
    LET toi == time_of_impact(nc3_position(self), nc3_velocity(self), self.shape,
                              nc3_position(other), nc3_velocity(other), other.shape,
                              max_toi)
    IN  IF toi = Some(RatInt(0)) THEN None ELSE toi

\* Collide::get_collition_with ends in .unwrap() on the backend's Result:
\* the call panics when the backend returns Err(Unsupported)
get_collision_with_panics(self, other) == Unsupported(self.shape, other.shape)

\* Collide::get_collision_with: the query on the two objects' positions,
\* velocities and shapes, with the caller's horizon
get_collision_with(self, other, max_toi) ==
    time_of_impact(nc3_position(self), nc3_velocity(self), self.shape,
                   nc3_position(other), nc3_velocity(other), other.shape,
                   max_toi)

\* ----------------------------------------------------------- accumulation
\* Variants of combine_toi: the larger value wins; the new value always
\* wins; the first value is kept
combine_toi_max(self, toi_other) ==
    IF self.nc3_toi = None
    THEN [self EXCEPT !.nc3_toi = Some(toi_other)]
    ELSE [self EXCEPT !.nc3_toi =
            Some(IF RatLe(Unwrap(self.nc3_toi), toi_other)
                 THEN toi_other ELSE Unwrap(self.nc3_toi))]

combine_toi_overwrite(self, toi_other) ==
    [self EXCEPT !.nc3_toi = Some(toi_other)]

combine_toi_keep_first(self, toi_other) ==
    IF self.nc3_toi = None
    THEN [self EXCEPT !.nc3_toi = Some(toi_other)]
    ELSE self

\* MoveableObject::combine_toi for WalkingObject
combine_toi(self, toi_other) ==
    IF self.nc3_toi = None
    THEN [self EXCEPT !.nc3_toi = Some(toi_other)]
    ELSE [self EXCEPT !.nc3_toi = Some(RatMin(Unwrap(self.nc3_toi), toi_other))]

\* Variant of the moving-vs-moving resolution that updates obj1 alone
collide_with_walking_one_sided(obj1, obj2, toi) ==
    <<[obj1 EXCEPT !.nc3_toi =
          IF @ = None THEN Some(toi) ELSE Some(RatMin(Unwrap(@), toi))],
      obj2>>

\* Variant of the moving-vs-moving resolution that also moves the two
\* objects apart by one unit
collide_with_walking_pushed_apart(obj1, obj2, toi) ==
    <<[obj1 EXCEPT
          !.nc3_toi = IF @ = None THEN Some(toi) ELSE Some(RatMin(Unwrap(@), toi)),
          !.nc3_position = RatSub(@, RatInt(1))],
      [obj2 EXCEPT
          !.nc3_toi = IF @ = None THEN Some(toi) ELSE Some(RatMin(Unwrap(@), toi)),
          !.nc3_position = RatAdd(@, RatInt(1))]>>

\* impl Collide<WalkingObject> for WalkingObject: <<obj1', obj2'>>
collide_with_walking(obj1, obj2, toi) ==
    <<combine_toi(obj1, toi), combine_toi(obj2, toi)>>

\* Variants of the moving-vs-obstacle resolution: the TOI is dropped; the
\* obstacle is pushed out of the way
collide_with_obstacle_ignored(this, other, toi) ==
    <<this, other>>

collide_with_obstacle_pushed(this, other, toi) ==
    <<[this EXCEPT !.nc3_toi =
          IF @ = None THEN Some(toi) ELSE Some(RatMin(Unwrap(@), toi))],
      [other EXCEPT !.nc3_position = RatAdd(@, RatInt(this.nc3_velocity))]>>

\* impl Collide<ObstacleObject> for WalkingObject: <<this', other'>>
collide_with_obstacle_stops(this, other, toi) ==
    <<[this EXCEPT
          !.nc3_toi = IF @ = None THEN Some(toi) ELSE Some(RatMin(Unwrap(@), toi)),
          !.nc3_velocity = 0],
      other>>

collide_with_obstacle(this, other, toi) ==
    <<combine_toi(this, toi), other>>

\* Variant of update_position_for_frame that ignores the accumulator
update_position_for_frame_unclamped(self, delta) ==
    [self EXCEPT
        !.nc3_position = RatAdd(@, RatScale(self.nc3_velocity, delta)),
        !.nc3_toi = None]

\* MoveableObject::update_position_for_frame: translate by velocity times
\* min(delta, accumulator) and clear the accumulator
update_position_for_frame(self, delta) ==
    LET effective == IF self.nc3_toi = None THEN delta
                     ELSE RatMin(delta, Unwrap(self.nc3_toi))
    IN  [self EXCEPT
            !.nc3_position = RatAdd(@, RatScale(self.nc3_velocity, effective)),
            !.nc3_toi = None]

\* --------------------------------------------------------------- the state
VARIABLES
    walking,    \* Query<&mut WalkingObject>: index -> WalkingObject
    obstacle,   \* Query<&mut ObstacleObject>: index -> ObstacleObject
    time,       \* Res<Time>: this frame's delta, in seconds
    pc,         \* the pass of system_walking_default that runs next
    frame,      \* number of frames begun
    doneObst,   \* (walking, obstacle) pairs visited in this frame
    doneWalk,   \* unordered walking pairs visited in this frame
    advanced,   \* walking objects whose position was updated in this frame
    startPos,   \* history: each walking object's position when the frame began
    found,      \* history: per walking object, the TOIs its queries returned
                \* in this frame, in the order of evaluation
    queryLog,   \* history: the bag of get_collision_with calls of this frame
    advanceLog, \* history: the bag of walking objects update_position_for_frame
                \* was called on in this frame
    shape_type,             \* a ShapeType handed to ShapeTypeWithHandle::new
    nc3_shape_handle,       \* Option: the native shape nc3_shape_to_shape built
    serialized,             \* Option: the ShapeType as written by Serialize
    deserialized,           \* Option: the ShapeType read back by Deserialize
    custom_velocity,        \* CustomVelocity of the controller body, <<x, y>>
    controller_translation, \* KinematicCharacterController::translation, Option
    output_grounded,        \* Option: KinematicCharacterControllerOutput::grounded
    events,                 \* Events<FpsControlEvent> not yet read
    look_angles,            \* <<yaw, pitch>> of the camera's look direction
    fps_pc                  \* the system of the controller schedule that runs next

\* the state of the shape conversions
shapeVars == <<shape_type, nc3_shape_handle, serialized, deserialized>>

\* the state of the first-person controller
fpsVars == <<custom_velocity, controller_translation, output_grounded, events,
             look_angles, fps_pc>>

vars == <<walking, obstacle, time, pc, frame, doneObst, doneWalk, advanced,
          startPos, found, queryLog, advanceLog, shapeVars, fpsVars>>

\* one call self.get_collision_with(other, max_toi), by the two entities
\* it is made on
QueryOf(self, other, max_toi) == [objs |-> {self, other}, max_toi |-> max_toi]

AllObstPairs == Walkers \X Obstacles
AllWalkPairs == {{i, j} : i, j \in Walkers} \ {{i} : i \in Walkers}

\* Variant of system_walking_default that updates the positions before the
\* moving-vs-moving pass
system_walking_default_update_first(dO, dW, adv) ==
    IF dO # AllObstPairs THEN "process_collisions_walking_obstaicals"
    ELSE IF adv # Walkers THEN "update_positions_walking"
    ELSE IF dW # AllWalkPairs THEN "process_collisions_walking"
    ELSE "idle"

\* system_walking_default: the three passes in program order.  Given what
\* the frame has done so far, the pass that runs next.
system_walking_default(dO, dW, adv) ==
    IF dO # AllObstPairs THEN "process_collisions_walking_obstaicals"
    ELSE IF dW # AllWalkPairs THEN "process_collisions_walking"
    ELSE IF adv # Walkers THEN "update_positions_walking"
    ELSE "idle"

Positions == {RatInt(x) : x \in 0..MaxPos}
Velocities == (-MaxVel)..MaxVel
\* every object is a unit ball, as in the repository's tests
Shapes == {Ball(1)}

\* no ShapeType is being converted
NoShapeConversion ==
    /\ shape_type = Ball(1)
    /\ nc3_shape_handle = None
    /\ serialized = None
    /\ deserialized = None

\* the app runs without the FpsCameraPlugin
NoController ==
    /\ custom_velocity = <<RatInt(0), RatInt(0), RatInt(0)>>
    /\ controller_translation = None
    /\ output_grounded = None
    /\ events = <<>>
    /\ look_angles = <<RatInt(0), RatInt(0)>>
    /\ fps_pc = "off"

Init ==
    /\ walking \in [Walkers ->
          {WalkingObject_new(s, p, v, "Default") :
              s \in Shapes, p \in Positions, v \in Velocities}]
    /\ obstacle \in [Obstacles ->
          {ObstacleObject_new(s, p) : s \in Shapes, p \in Positions}]
    /\ time = 0
    /\ pc = "idle"
    /\ frame = 0
    /\ doneObst = {}
    /\ doneWalk = {}
    /\ advanced = {}
    /\ startPos = [i \in Walkers |-> walking[i].nc3_position]
    /\ found = [i \in Walkers |-> <<>>]
    /\ queryLog = EmptyBag
    /\ advanceLog = EmptyBag
    /\ NoShapeConversion
    /\ NoController

\* The scheduler runs system_walking_default with this tick's Res<Time>.
BeginFrame ==
    /\ pc = "idle"
    /\ frame < MaxFrames
    /\ \E d \in 0..MaxDt : time' = d
    /\ frame' = frame + 1
    /\ doneObst' = {}
    /\ doneWalk' = {}
    /\ advanced' = {}
    /\ pc' = system_walking_default({}, {}, {})
    /\ startPos' = [i \in Walkers |-> walking[i].nc3_position]
    /\ found' = [i \in Walkers |-> <<>>]
    /\ queryLog' = EmptyBag
    /\ advanceLog' = EmptyBag
    /\ UNCHANGED <<walking, obstacle>>
    /\ UNCHANGED <<shapeVars, fpsVars>>

\* process_collisions_walking_obstaicals, one (obj1, obj2) of the nested
\* for_each_mut loops; the queries' iteration order is not specified.  A
\* panic of the query unwinds out of the system: nothing is resolved and no
\* later step of the frame runs (pc "panicked").
process_collisions_walking_obstaicals(i, j) ==
    /\ pc = "process_collisions_walking_obstaicals"
    /\ <<i, j>> \notin doneObst
    /\ LET collision ==
               IF get_collision_with_panics(walking[i], obstacle[j]) THEN None
               ELSE get_collision_with(walking[i], obstacle[j], RatInt(time))
           res == IF IsSome(collision)
                  THEN collide_with_obstacle(walking[i], obstacle[j], Unwrap(collision))
                  ELSE <<walking[i], obstacle[j]>>
       IN  /\ walking' = [walking EXCEPT ![i] = res[1]]
           /\ obstacle' = [obstacle EXCEPT ![j] = res[2]]
           /\ found' = IF IsSome(collision)
                       THEN [found EXCEPT ![i] = Append(@, Unwrap(collision))]
                       ELSE found
    /\ queryLog' = queryLog (+) SetToBag({QueryOf(<<"WalkingObject", i>>,
                                                  <<"ObstacleObject", j>>,
                                                  RatInt(time))})
    /\ doneObst' = doneObst \cup {<<i, j>>}
    /\ pc' = IF get_collision_with_panics(walking[i], obstacle[j])
             THEN "panicked"
             ELSE system_walking_default(doneObst', doneWalk, advanced)
    /\ UNCHANGED <<time, frame, doneWalk, advanced, startPos, advanceLog>>
    /\ UNCHANGED <<shapeVars, fpsVars>>

\* Variant of the moving-vs-moving pass that takes every combination with
\* repetition, a walking object with itself included
process_collisions_walking_with_self(i, j) ==
    /\ pc = "process_collisions_walking"
    /\ {i, j} \notin doneWalk
    /\ LET collision ==
               IF get_collision_with_panics(walking[i], walking[j]) THEN None
               ELSE get_collision_with(walking[i], walking[j], RatInt(time))
           res == IF IsSome(collision)
                  THEN collide_with_walking(walking[i], walking[j], Unwrap(collision))
                  ELSE <<walking[i], walking[j]>>
       IN  /\ walking' = [walking EXCEPT ![i] = res[1], ![j] = res[2]]
           /\ found' = IF IsSome(collision)
                       THEN [found EXCEPT ![i] = Append(@, Unwrap(collision)),
                                          ![j] = Append(@, Unwrap(collision))]
                       ELSE found
    /\ queryLog' = queryLog (+) SetToBag({QueryOf(<<"WalkingObject", i>>,
                                                  <<"WalkingObject", j>>,
                                                  RatInt(time))})
    /\ doneWalk' = doneWalk \cup {{i, j}}
    /\ pc' = IF get_collision_with_panics(walking[i], walking[j])
             THEN "panicked"
             ELSE system_walking_default(doneObst, doneWalk', advanced)
    /\ UNCHANGED <<obstacle, time, frame, doneObst, advanced, startPos,
                   advanceLog>>
    /\ UNCHANGED <<shapeVars, fpsVars>>

\* process_collisions_walking, one [obj1, obj2] of iter_combinations_mut
process_collisions_walking(i, j) ==
    /\ pc = "process_collisions_walking"
    /\ i # j
    /\ {i, j} \notin doneWalk
    /\ LET collision ==
               IF get_collision_with_panics(walking[i], walking[j]) THEN None
               ELSE get_collision_with(walking[i], walking[j], RatInt(time))
           res == IF IsSome(collision)
                  THEN collide_with_walking(walking[i], walking[j], Unwrap(collision))
                  ELSE <<walking[i], walking[j]>>
       IN  /\ walking' = [walking EXCEPT ![i] = res[1], ![j] = res[2]]
           /\ found' = IF IsSome(collision)
                       THEN [found EXCEPT ![i] = Append(@, Unwrap(collision)),
                                          ![j] = Append(@, Unwrap(collision))]
                       ELSE found
    /\ queryLog' = queryLog (+) SetToBag({QueryOf(<<"WalkingObject", i>>,
                                                  <<"WalkingObject", j>>,
                                                  RatInt(time))})
    /\ doneWalk' = doneWalk \cup {{i, j}}
    /\ pc' = IF get_collision_with_panics(walking[i], walking[j])
             THEN "panicked"
             ELSE system_walking_default(doneObst, doneWalk', advanced)
    /\ UNCHANGED <<obstacle, time, frame, doneObst, advanced, startPos,
                   advanceLog>>
    /\ UNCHANGED <<shapeVars, fpsVars>>

\* Variant of the advancement pass that skips the objects no contact was
\* found for
update_positions_walking_only_collided(i) ==
    /\ pc = "update_positions_walking"
    /\ i \notin advanced
    /\ walking' = IF walking[i].nc3_toi = None THEN walking
                  ELSE [walking EXCEPT
                           ![i] = update_position_for_frame(@, RatInt(time))]
    /\ advanceLog' = IF walking[i].nc3_toi = None THEN advanceLog
                     ELSE advanceLog (+) SetToBag({i})
    /\ advanced' = advanced \cup {i}
    /\ pc' = system_walking_default(doneObst, doneWalk, advanced')
    /\ UNCHANGED <<obstacle, time, frame, doneObst, doneWalk, startPos, found,
                   queryLog>>
    /\ UNCHANGED <<shapeVars, fpsVars>>

\* update_positions_walking, one obj of the for_each_mut loop
update_positions_walking(i) ==
    /\ pc = "update_positions_walking"
    /\ i \notin advanced
    /\ walking' = [walking EXCEPT ![i] = update_position_for_frame(@, RatInt(time))]
    /\ advanceLog' = advanceLog (+) SetToBag({i})
    /\ advanced' = advanced \cup {i}
    /\ pc' = system_walking_default(doneObst, doneWalk, advanced')
    /\ UNCHANGED <<obstacle, time, frame, doneObst, doneWalk, startPos, found,
                   queryLog>>
    /\ UNCHANGED <<shapeVars, fpsVars>>

Next ==
    \/ BeginFrame
    \/ \E i \in Walkers, j \in Obstacles : process_collisions_walking_obstaicals(i, j)
    \/ \E i \in Walkers, j \in Walkers : process_collisions_walking(i, j)
    \/ \E i \in Walkers : update_positions_walking(i)

Spec == Init /\ [][Next]_vars

\* --------------------------------------------------- the first frame
\* Every object layout of Init run through its first frame only: the
\* queries of the two resolution passes on all inputs, and the objects the
\* advancement leaves behind.
BeginFirstFrame == frame = 0 /\ BeginFrame

NextQuery ==
    \/ BeginFirstFrame
    \/ \E i \in Walkers, j \in Obstacles : process_collisions_walking_obstaicals(i, j)
    \/ \E i \in Walkers, j \in Walkers : process_collisions_walking(i, j)
    \/ \E i \in Walkers : update_positions_walking(i)

SpecQuery == Init /\ [][NextQuery]_vars

\* ------------------------------------------ the layout of the unit tests
\* The tests of collision_walking.rs and collision_obstacle.rs put a unit
\* ball at the origin and a second one 10 away on the x axis, with
\* velocities -1, 0 or 1 along x, and query with max_toi 1 or
\* std::f32::MAX.  The same objects are run through frames of
\* system_walking_default; the obstacle is either the tests' one or far
\* out of every walking object's reach.
TestPositions1 == {RatInt(0)}
TestPositions2 == {RatInt(10)}
TestObstaclePositions == {RatInt(10), RatInt(1000)}
TestVelocities == {-1, 0, 1}
TestDts == {1, 100}

\* std::f32::MAX as a horizon: a value above every time of impact of the
\* objects above
F32_MAX == RatInt(1000000)

InitTests ==
    /\ walking \in [Walkers ->
          {WalkingObject_new(Ball(1), p, v, "Default") :
              p \in TestPositions1 \cup TestPositions2, v \in TestVelocities}]
    /\ walking[1].nc3_position \in TestPositions1
    /\ walking[2].nc3_position \in TestPositions2
    /\ obstacle \in [Obstacles ->
          {ObstacleObject_new(Ball(1), p) : p \in TestObstaclePositions}]
    /\ time = 0
    /\ pc = "idle"
    /\ frame = 0
    /\ doneObst = {}
    /\ doneWalk = {}
    /\ advanced = {}
    /\ startPos = [i \in Walkers |-> walking[i].nc3_position]
    /\ found = [i \in Walkers |-> <<>>]
    /\ queryLog = EmptyBag
    /\ advanceLog = EmptyBag
    /\ NoShapeConversion
    /\ NoController

\* The scheduler runs system_walking_default with a tick of 1 or 100 seconds.
BeginFrameTests ==
    /\ pc = "idle"
    /\ frame < MaxFrames
    /\ \E d \in TestDts : time' = d
    /\ frame' = frame + 1
    /\ doneObst' = {}
    /\ doneWalk' = {}
    /\ advanced' = {}
    /\ pc' = system_walking_default({}, {}, {})
    /\ startPos' = [i \in Walkers |-> walking[i].nc3_position]
    /\ found' = [i \in Walkers |-> <<>>]
    /\ queryLog' = EmptyBag
    /\ advanceLog' = EmptyBag
    /\ UNCHANGED <<walking, obstacle>>
    /\ UNCHANGED <<shapeVars, fpsVars>>

NextTests ==
    \/ BeginFrameTests
    \/ \E i \in Walkers, j \in Obstacles : process_collisions_walking_obstaicals(i, j)
    \/ \E i \in Walkers, j \in Walkers : process_collisions_walking(i, j)
    \/ \E i \in Walkers : update_positions_walking(i)

SpecTests == InitTests /\ [][NextTests]_vars

\* system_walking_default is one function call: once it is entered its
\* three loops run to their end, so a step of a frame that has begun is
\* eventually taken.  When the scheduler calls it again is left open.
FrameStep ==
    \/ \E i \in Walkers, j \in Obstacles : process_collisions_walking_obstaicals(i, j)
    \/ \E i \in Walkers, j \in Walkers : process_collisions_walking(i, j)
    \/ \E i \in Walkers : update_positions_walking(i)

SpecTestsLive == SpecTests /\ WF_vars(FrameStep)

\* ------------------------------------------------- balls and planes
\* Walking objects and obstacles whose shape is a unit ball or a plane
\* (WalkingObject::new and ObstacleObject::new take any ShapeType).
ShapeKinds == {Ball(1), Plane(1), Plane(-1)}
ShapePositions == {RatInt(0), RatInt(3), RatInt(6)}
ShapeVelocities == {-1, 0, 1}

InitShapes ==
    /\ walking \in [Walkers ->
          {WalkingObject_new(s, p, v, "Default") :
              s \in ShapeKinds, p \in ShapePositions, v \in ShapeVelocities}]
    /\ obstacle \in [Obstacles ->
          {ObstacleObject_new(s, p) : s \in ShapeKinds, p \in ShapePositions}]
    /\ time = 0
    /\ pc = "idle"
    /\ frame = 0
    /\ doneObst = {}
    /\ doneWalk = {}
    /\ advanced = {}
    /\ startPos = [i \in Walkers |-> walking[i].nc3_position]
    /\ found = [i \in Walkers |-> <<>>]
    /\ queryLog = EmptyBag
    /\ advanceLog = EmptyBag
    /\ NoShapeConversion
    /\ NoController

SpecShapes == InitShapes /\ [][Next]_vars

\* ------------------------------------------------ shape conversions
\* bound on the nesting of Compound shapes the conversions are run on
MaxDepth == 2

RECURSIVE nc3_shape_to_shape(_)
RECURSIVE ShapeTypes(_)

\* the variants of ShapeType besides Ball and Plane (vectors and points
\* are their x coordinates)
Capsule(half_height, radius) ==
    [kind |-> "Capsule", half_height |-> half_height, radius |-> radius]
ConvexHull(points) == [kind |-> "ConvexHull", points |-> points]
Cuboid(half_extents) == [kind |-> "Cuboid", half_extents |-> half_extents]
HeightField(heights, scale) ==
    [kind |-> "HeightField", heights |-> heights, scale |-> scale]
Segment(a, b) == [kind |-> "Segment", a |-> a, b |-> b]
TriMesh(points, indices) ==
    [kind |-> "TriMesh", points |-> points, indices |-> indices]
Triangle(a, b, c) == [kind |-> "Triangle", a |-> a, b |-> b, c |-> c]
\* Compound(Vec<(Isometry3<f32>, ShapeType)>)
Compound(parts) == [kind |-> "Compound", parts |-> parts]

\* nc3::shape::Compound::new: the composite of the given (transform,
\* shape handle) parts, kept in the order given
nc3_Compound_new(shapes) == [nc3 |-> "Compound", shapes |-> shapes]

\* Variant of the lowering that hands a nested part to the backend as the
\* first of its own parts instead of as a composite
nc3_shape_to_shape_flattening(shape) ==
    IF shape.kind # "Compound"
    THEN [nc3 |-> shape.kind, shape |-> [f \in DOMAIN shape \ {"kind"} |-> shape[f]]]
    ELSE nc3_Compound_new(
            [k \in 1..Len(shape.parts) |->
                LET part == shape.parts[k][2]
                IN  <<shape.parts[k][1],
                      IF part.kind = "Compound" /\ part.parts # <<>>
                      THEN nc3_shape_to_shape(part.parts[1][2])
                      ELSE nc3_shape_to_shape(part)>>])

\* nc3_shape_to_shape: each primitive variant to a handle on a clone of the
\* backend shape it wraps, a Compound to a backend Compound of its parts'
\* transforms and lowered shapes
nc3_shape_to_shape(shape) ==
    CASE shape.kind = "Ball" -> [nc3 |-> "Ball", shape |-> [radius |-> shape.radius]]
      [] shape.kind = "Capsule" ->
            [nc3 |-> "Capsule",
             shape |-> [half_height |-> shape.half_height, radius |-> shape.radius]]
      [] shape.kind = "ConvexHull" ->
            [nc3 |-> "ConvexHull", shape |-> [points |-> shape.points]]
      [] shape.kind = "Cuboid" ->
            [nc3 |-> "Cuboid", shape |-> [half_extents |-> shape.half_extents]]
      [] shape.kind = "HeightField" ->
            [nc3 |-> "HeightField",
             shape |-> [heights |-> shape.heights, scale |-> shape.scale]]
      [] shape.kind = "Plane" -> [nc3 |-> "Plane", shape |-> [normal |-> shape.normal]]
      [] shape.kind = "Segment" ->
            [nc3 |-> "Segment", shape |-> [a |-> shape.a, b |-> shape.b]]
      [] shape.kind = "TriMesh" ->
            [nc3 |-> "TriMesh",
             shape |-> [points |-> shape.points, indices |-> shape.indices]]
      [] shape.kind = "Triangle" ->
            [nc3 |-> "Triangle", shape |-> [a |-> shape.a, b |-> shape.b, c |-> shape.c]]
      [] shape.kind = "Compound" ->
            nc3_Compound_new(
                [k \in 1..Len(shape.parts) |->
                    <<shape.parts[k][1], nc3_shape_to_shape(shape.parts[k][2])>>])

\* one shape of each primitive variant
PrimitiveShapes ==
    {Ball(1), Capsule(1, 2), ConvexHull(<<0, 1, 3>>), Cuboid(2),
     HeightField(<<0, 2, 1>>, 3), Plane(-1), Segment(0, 2),
     TriMesh(<<0, 1, 2, 3>>, <<<<1, 2, 3>>, <<2, 3, 4>>>>), Triangle(0, 1, 2)}

\* relative transforms of a Compound's parts (translations along x)
Isometries == {0, 1}

\* primitive parts listed next to a nested part
SiblingShapes == {Ball(1), Plane(-1)}

\* part lists of zero, one or two entries: any of the given shapes alone,
\* or before or after a primitive sibling
PartLists(shapes) ==
    {<<>>}
      \cup {<<<<iso, sh>>>> : iso \in Isometries, sh \in shapes}
      \cup {<<<<iso, sh>>, <<iso2, sib>>>> :
               iso \in Isometries, sh \in shapes,
               iso2 \in Isometries, sib \in SiblingShapes}
      \cup {<<<<iso2, sib>>, <<iso, sh>>>> :
               iso \in Isometries, sh \in shapes,
               iso2 \in Isometries, sib \in SiblingShapes}

\* the ShapeType values whose Compounds nest at most depth deep
ShapeTypes(depth) ==
    IF depth = 0 THEN PrimitiveShapes
    ELSE PrimitiveShapes
            \cup {Compound(parts) : parts \in PartLists(ShapeTypes(depth - 1))}

\* the collision systems are not scheduled
NoCollisionSystem ==
    /\ walking = [i \in Walkers |-> WalkingObject_new(Ball(1), RatInt(0), 0, "Default")]
    /\ obstacle = [j \in Obstacles |-> ObstacleObject_new(Ball(1), RatInt(0))]
    /\ time = 0
    /\ pc = "off"
    /\ frame = 0
    /\ doneObst = {}
    /\ doneWalk = {}
    /\ advanced = {}
    /\ startPos = [i \in Walkers |-> walking[i].nc3_position]
    /\ found = [i \in Walkers |-> <<>>]
    /\ queryLog = EmptyBag
    /\ advanceLog = EmptyBag

ccdVars == <<walking, obstacle, time, pc, frame, doneObst, doneWalk, advanced,
             startPos, found, queryLog, advanceLog>>

InitShapeTypes ==
    /\ shape_type \in ShapeTypes(MaxDepth)
    /\ nc3_shape_handle = None
    /\ serialized = None
    /\ deserialized = None
    /\ NoCollisionSystem
    /\ NoController

\* CollisionObject::nc3_shape_handle: the handle on the lowered shape
CollisionObject_nc3_shape_handle ==
    /\ nc3_shape_handle = None
    /\ nc3_shape_handle' = Some(nc3_shape_to_shape(shape_type))
    /\ UNCHANGED <<shape_type, serialized, deserialized, ccdVars, fpsVars>>

\* the variants of ShapeType in declaration order (the derive numbers them
\* from 0)
VariantNames ==
    <<"Ball", "Capsule", "ConvexHull", "Cuboid", "HeightField", "Plane",
      "Segment", "TriMesh", "Triangle", "Compound">>

VariantIndex(kind) == CHOOSE k \in 0..9 : VariantNames[k + 1] = kind

\* the serialized fields of each primitive variant, in order, with the type
\* each is written as
VariantFields(kind) ==
    CASE kind = "Ball" -> <<<<"radius", "f32">>>>
      [] kind = "Capsule" -> <<<<"half_height", "f32">>, <<"radius", "f32">>>>
      [] kind = "ConvexHull" -> <<<<"points", "seq_f32">>>>
      [] kind = "Cuboid" -> <<<<"half_extents", "f32">>>>
      [] kind = "HeightField" -> <<<<"heights", "seq_f32">>, <<"scale", "f32">>>>
      [] kind = "Plane" -> <<<<"normal", "f32">>>>
      [] kind = "Segment" -> <<<<"a", "f32">>, <<"b", "f32">>>>
      [] kind = "TriMesh" -> <<<<"points", "seq_f32">>, <<"indices", "seq_tri">>>>
      [] kind = "Triangle" -> <<<<"a", "f32">>, <<"b", "f32">>, <<"c", "f32">>>>

RECURSIVE Concat(_)
Concat(seqs) == IF seqs = <<>> THEN <<>> ELSE Head(seqs) \o Concat(Tail(seqs))

Drop(seq, n) == SubSeq(seq, n + 1, Len(seq))

\* one field written as tokens <<type, value>>: a number, a length-prefixed
\* list of numbers, or a length-prefixed list of index triples
serialize_field(type, v) ==
    CASE type = "f32" -> <<<<"f32", v>>>>
      [] type = "seq_f32" ->
            <<<<"seq", Len(v)>>>> \o [k \in 1..Len(v) |-> <<"f32", v[k]>>]
      [] type = "seq_tri" ->
            <<<<"seq", Len(v)>>>>
               \o Concat([k \in 1..Len(v) |->
                            <<<<"usize", v[k][1]>>, <<"usize", v[k][2]>>,
                              <<"usize", v[k][3]>>>>])

\* one field read back: <<value, tokens left>>
deserialize_field(type, tokens) ==
    CASE type = "f32" -> <<tokens[1][2], Tail(tokens)>>
      [] type = "seq_f32" ->
            LET n == tokens[1][2]
            IN  <<[k \in 1..n |-> tokens[1 + k][2]], Drop(tokens, n + 1)>>
      [] type = "seq_tri" ->
            LET n == tokens[1][2]
            IN  <<[k \in 1..n |->
                     <<tokens[3 * k - 1][2], tokens[3 * k][2], tokens[3 * k + 1][2]>>],
                  Drop(tokens, 3 * n + 1)>>

RECURSIVE ShapeType_serialize(_)
RECURSIVE ShapeType_deserialize(_)
RECURSIVE deserialize_parts(_, _)
RECURSIVE deserialize_fields(_, _, _)

\* Variant of Serialize that writes a Compound's parts last to first
ShapeType_serialize_reversed(shape) ==
    <<<<"variant", VariantIndex(shape.kind)>>>>
      \o IF shape.kind = "Compound"
         THEN <<<<"seq", Len(shape.parts)>>>>
                 \o Concat([k \in 1..Len(shape.parts) |->
                       LET part == shape.parts[Len(shape.parts) + 1 - k]
                       IN  <<<<"iso", part[1]>>>> \o ShapeType_serialize(part[2])])
         ELSE Concat([k \in 1..Len(VariantFields(shape.kind)) |->
                 LET f == VariantFields(shape.kind)[k]
                 IN  serialize_field(f[2], shape[f[1]])])

\* #[derive(Serialize)] for ShapeType: the variant's index, then the wrapped
\* value; a Compound's Vec as its length and then, per entry, the transform
\* and the entry's ShapeType
ShapeType_serialize(shape) ==
    <<<<"variant", VariantIndex(shape.kind)>>>>
      \o IF shape.kind = "Compound"
         THEN <<<<"seq", Len(shape.parts)>>>>
                 \o Concat([k \in 1..Len(shape.parts) |->
                       <<<<"iso", shape.parts[k][1]>>>>
                          \o ShapeType_serialize(shape.parts[k][2])])
         ELSE Concat([k \in 1..Len(VariantFields(shape.kind)) |->
                 LET f == VariantFields(shape.kind)[k]
                 IN  serialize_field(f[2], shape[f[1]])])

\* the entries of a Compound's Vec read back: <<parts, tokens left>>
deserialize_parts(n, tokens) ==
    IF n = 0 THEN <<<<>>, tokens>>
    ELSE LET iso == tokens[1][2]
             part == ShapeType_deserialize(Tail(tokens))
             rest == deserialize_parts(n - 1, part[2])
         IN  <<<<<<iso, part[1]>>>> \o rest[1], rest[2]>>

\* the fields of a primitive variant read back into the value acc
deserialize_fields(fields, tokens, acc) ==
    IF fields = <<>> THEN <<acc, tokens>>
    ELSE LET r == deserialize_field(fields[1][2], tokens)
         IN  deserialize_fields(Tail(fields), r[2], acc @@ (fields[1][1] :> r[1]))

\* #[derive(Deserialize)] for ShapeType: <<the ShapeType, tokens left>>
ShapeType_deserialize(tokens) ==
    LET kind == VariantNames[tokens[1][2] + 1]
    IN  IF kind = "Compound"
        THEN LET r == deserialize_parts(tokens[2][2], Drop(tokens, 2))
             IN  <<Compound(r[1]), r[2]>>
        ELSE deserialize_fields(VariantFields(kind), Tail(tokens), "kind" :> kind)

\* a map's shape is saved
Serialize ==
    /\ serialized = None
    /\ serialized' = Some(ShapeType_serialize(shape_type))
    /\ UNCHANGED <<shape_type, nc3_shape_handle, deserialized, ccdVars, fpsVars>>

\* a saved shape is loaded
Deserialize ==
    /\ serialized # None
    /\ deserialized = None
    /\ deserialized' = Some(ShapeType_deserialize(Unwrap(serialized))[1])
    /\ UNCHANGED <<shape_type, nc3_shape_handle, serialized, ccdVars, fpsVars>>

NextShapeTypes ==
    \/ CollisionObject_nc3_shape_handle
    \/ Serialize
    \/ Deserialize

SpecShapeTypes == InitShapeTypes /\ [][NextShapeTypes]_vars


\* ------------------------------------------- first-person controller
\* const PHYSICAL_SCALE, given to the physics plugin as its physics scale
PHYSICAL_SCALE == 1
\* custom_input_map: speed of a Translate event
translate_velocity == 2

\* Vec3 with exact coordinates
Vec3(x, y, z) == <<RatInt(x), RatInt(y), RatInt(z)>>
Vec3_ZERO == Vec3(0, 0, 0)
Vec3_Y == Vec3(0, 1, 0)
Vec3_Z == Vec3(0, 0, 1)
Vec3Add(a, b) == <<RatAdd(a[1], b[1]), RatAdd(a[2], b[2]), RatAdd(a[3], b[3])>>
Vec3Scale(k, a) == <<RatScale(k, a[1]), RatScale(k, a[2]), RatScale(k, a[3])>>

\* RapierConfiguration::default().gravity * PHYSICAL_SCALE
gravity == Vec3Scale(PHYSICAL_SCALE, <<RatInt(0), Rat(-981, 100), RatInt(0)>>)
\* custom_input_map: 5.0 * Vec3::Y
jump_initial_velocity == Vec3Scale(5, Vec3_Y)
\* custom_input_map: Vec2::splat(0.1)
mouse_rotate_sensitivity == Rat(1, 10)

RotateCamera(delta) == [event |-> "RotateCamera", v |-> delta]
Translate(delta) == [event |-> "Translate", v |-> delta]
Jump(jump_velocity) == [event |-> "Jump", v |-> jump_velocity]

\* keys held during a frame (W walks along the look direction, which stays
\* at yaw 0 while the mouse moves up and down only)
KeySets == SUBSET {"W", "Space"}
\* summed mouse motion of a frame, <<x, y>>
CursorDeltas == {<<0, 0>>, <<0, 1>>}

\* controller.translation = Some(translation.map(|t| t + by).unwrap_or(by))
add_translation(translation, by) ==
    Some(IF translation = None THEN by ELSE Vec3Add(Unwrap(translation), by))

\* apply_gravity, the velocity of one controller
apply_gravity_velocity(velocity, grounded, dt) ==
    IF grounded /\ RatLt(velocity[2], RatInt(0))
    THEN <<velocity[1], RatInt(0), velocity[3]>>
    ELSE Vec3Add(velocity, Vec3Scale(dt, gravity))

\* Variant of the Jump arm that does not ask whether the body is grounded
on_Jump_in_mid_air(velocity, grounded, jump_velocity) ==
    Vec3Scale(PHYSICAL_SCALE, jump_velocity)

\* fps_control_system, the Jump arm: the parent controller's CustomVelocity
on_Jump(velocity, grounded, jump_velocity) ==
    IF grounded THEN Vec3Scale(PHYSICAL_SCALE, jump_velocity) ELSE velocity

\* fps_control_system, the Translate arm: the parent controller's pending
\* translation (yaw is 0: rot_x, rot_y, rot_z are the axes)
on_Translate(translation, delta, dt) ==
    add_translation(translation, Vec3Scale(dt * PHYSICAL_SCALE, delta))

\* fps_control_system, the RotateCamera arm: <<yaw, pitch>>
on_RotateCamera(look, delta, dt) ==
    <<RatSub(look[1], RatScale(dt, delta[1])), RatSub(look[2], RatScale(dt, delta[2]))>>

RECURSIVE fps_control_events(_, _, _, _)
\* fps_control_system, the loop over events.iter(): st holds the camera's
\* look angles and the parent controller's velocity and translation; output
\* is the parent's controller output, none while the body has none (then
\* controllers.get_mut fails and the Translate and Jump arms do nothing)
fps_control_events(st, evs, output, dt) ==
    IF evs = <<>> THEN st
    ELSE LET e == Head(evs)
             st1 ==
               CASE e.event = "RotateCamera" ->
                      [st EXCEPT !.look = on_RotateCamera(@, e.v, dt)]
                 [] e.event = "Translate" ->
                      IF output = None THEN st
                      ELSE [st EXCEPT !.translation = on_Translate(@, e.v, dt)]
                 [] e.event = "Jump" ->
                      IF output = None THEN st
                      ELSE [st EXCEPT !.velocity = on_Jump(@, Unwrap(output), e.v)]
         IN  fps_control_events(st1, Tail(evs), output, dt)

\* the variables the controller's systems leave alone
ccdRest == <<walking, obstacle, pc, doneObst, doneWalk, advanced, startPos,
             found, queryLog, advanceLog>>

\* setup_physics spawns the body with FpsControllerBodyBundle::default()
InitFps ==
    /\ custom_velocity = Vec3_ZERO
    /\ controller_translation = Some(Vec3_ZERO)
    /\ output_grounded = None
    /\ events = <<>>
    /\ look_angles = <<RatInt(0), RatInt(0)>>
    /\ fps_pc = "idle"
    /\ NoCollisionSystem
    /\ NoShapeConversion

\* the app's schedule starts a frame: Res<Time> gets this frame's delta
FpsTick ==
    /\ fps_pc = "idle"
    /\ frame < MaxFrames
    /\ \E d \in 0..MaxDt : time' = d
    /\ frame' = frame + 1
    /\ fps_pc' = "apply_gravity"
    /\ UNCHANGED <<custom_velocity, controller_translation, output_grounded,
                   events, look_angles, ccdRest, shapeVars>>

\* apply_gravity (CoreStage::PreUpdate); its query matches the body once
\* it has a controller output
apply_gravity ==
    /\ fps_pc = "apply_gravity"
    /\ IF output_grounded = None
       THEN UNCHANGED <<custom_velocity, controller_translation>>
       ELSE /\ custom_velocity' =
                  apply_gravity_velocity(custom_velocity, Unwrap(output_grounded), time)
            /\ controller_translation' =
                  add_translation(controller_translation,
                                  Vec3Scale(time, custom_velocity'))
    /\ fps_pc' = "update"
    /\ UNCHANGED <<output_grounded, events, look_angles, time, frame, ccdRest,
                   shapeVars>>

\* custom_input_map (CoreStage::Update, in either order with
\* fps_control_system)
custom_input_map(keys, cursor_delta) ==
    /\ fps_pc \in {"update", "control_done"}
    /\ events' = events
          \o <<RotateCamera(<<RatScale(cursor_delta[1], mouse_rotate_sensitivity),
                              RatScale(cursor_delta[2], mouse_rotate_sensitivity)>>)>>
          \o (IF "W" \in keys
              THEN <<Translate(Vec3Scale(translate_velocity, Vec3_Z))>> ELSE <<>>)
          \o (IF "Space" \in keys THEN <<Jump(jump_initial_velocity)>> ELSE <<>>)
    /\ fps_pc' = IF fps_pc = "update" THEN "input_done" ELSE "physics"
    /\ UNCHANGED <<custom_velocity, controller_translation, output_grounded,
                   look_angles, time, frame, ccdRest, shapeVars>>

\* fps_control_system: every event not yet read, in the order sent
fps_control_system ==
    /\ fps_pc \in {"update", "input_done"}
    /\ LET st == fps_control_events(
                    [look |-> look_angles, velocity |-> custom_velocity,
                     translation |-> controller_translation],
                    events, output_grounded, time)
       IN  /\ look_angles' = st.look
           /\ custom_velocity' = st.velocity
           /\ controller_translation' = st.translation
    /\ events' = <<>>
    /\ fps_pc' = IF fps_pc = "update" THEN "control_done" ELSE "physics"
    /\ UNCHANGED <<output_grounded, time, frame, ccdRest, shapeVars>>

\* the physics plugin's step: a pending translation is taken and the
\* move's outcome written to the controller output
RapierStep ==
    /\ fps_pc = "physics"
    /\ IF controller_translation = None
       THEN UNCHANGED <<controller_translation, output_grounded>>
       ELSE /\ controller_translation' = None
            /\ \E grounded \in BOOLEAN : output_grounded' = Some(grounded)
    /\ fps_pc' = "idle"
    /\ UNCHANGED <<custom_velocity, events, look_angles, time, frame, ccdRest,
                   shapeVars>>

NextFps ==
    \/ FpsTick
    \/ apply_gravity
    \/ \E keys \in KeySets, cursor_delta \in CursorDeltas :
          custom_input_map(keys, cursor_delta)
    \/ fps_control_system
    \/ RapierStep

SpecFps == InitFps /\ [][NextFps]_vars

\* ------------------------------------------------------ claim vocabulary
Last(seq) == seq[Len(seq)]

RECURSIVE SeqMin(_)
SeqMin(seq) ==
    IF Len(seq) = 1 THEN seq[1]
    ELSE LET m == SeqMin(Tail(seq))
         IN  IF RatLe(seq[1], m) THEN seq[1] ELSE m

\* the accumulator after t is combined into accumulator acc, written out
MinInto(acc, t) ==
    IF acc = None THEN Some(t)
    ELSE IF RatLe(Unwrap(acc), t) THEN acc ELSE Some(t)

\* two balls inter-penetrate: their centres are closer than the radii's sum
Overlap(p1, shape1, p2, shape2) ==
    RatLt(RatAbs(RatSub(p1, p2)), RatInt(shape1.radius + shape2.radius))

Touching(p1, shape1, p2, shape2) ==
    RatAbs(RatSub(p1, p2)) = RatInt(shape1.radius + shape2.radius)

InResolution ==
    pc \in {"process_collisions_walking_obstaicals", "process_collisions_walking"}

\* C1: no walking object is advanced in a frame before every
\* moving-vs-obstacle and every moving-vs-moving pair of that frame has been
\* queried and resolved: the update pass starts after both resolution passes.
C1_AdvanceAfterResolution ==
    advanced # {} => /\ doneObst = AllObstPairs
                     /\ doneWalk = AllWalkPairs

C1_Witness ==
    \E i \in advanced :
        /\ Len(found[i]) = Cardinality(Obstacles) + Cardinality(Walkers) - 1
        /\ walking[i].nc3_position # startPos[i]

\* C2: a walking object that does not overlap an obstacle when a frame
\* begins does not overlap it after its advancement in that frame, and is
\* still on the same side of it, whatever the order of the pairs.
C2_NoObstaclePenetration ==
    \A i \in advanced, j \in Obstacles :
        LET o == obstacle[j]
            w == walking[i]
        IN  ~Overlap(startPos[i], w.shape, o.nc3_position, o.shape)
            => /\ ~Overlap(w.nc3_position, w.shape, o.nc3_position, o.shape)
               /\ RatLt(startPos[i], o.nc3_position)
                    <=> RatLt(w.nc3_position, o.nc3_position)

C2_Witness ==
    \E i \in advanced, j \in Obstacles :
        LET o == obstacle[j]
            w == walking[i]
        IN  /\ ~Touching(startPos[i], w.shape, o.nc3_position, o.shape)
            /\ ~Overlap(startPos[i], w.shape, o.nc3_position, o.shape)
            /\ Touching(w.nc3_position, w.shape, o.nc3_position, o.shape)
            /\ RatLt(RatAbs(RatSub(w.nc3_position, startPos[i])),
                     RatInt(Abs(w.nc3_velocity) * time))

\* C3: two walking objects that do not overlap when a frame begins do not
\* overlap after both were advanced in that frame, also when one of them
\* was clamped by an earlier impact with a third body.
C3_NoWalkingPenetration ==
    \A i, j \in advanced :
        i # j /\ ~Overlap(startPos[i], walking[i].shape,
                          startPos[j], walking[j].shape)
        => ~Overlap(walking[i].nc3_position, walking[i].shape,
                    walking[j].nc3_position, walking[j].shape)

\* C3 for frames that begin with no two bodies overlapping at all (neither
\* two walking objects nor a walking object and an obstacle): the two
\* walking objects may overlap after the frame all the same.
NoOverlapAtStart ==
    /\ \A i, j \in Walkers :
        i # j => ~Overlap(startPos[i], walking[i].shape,
                          startPos[j], walking[j].shape)
    /\ \A i \in Walkers, j \in Obstacles :
        ~Overlap(startPos[i], walking[i].shape,
                 obstacle[j].nc3_position, obstacle[j].shape)

C3_NoWalkingPenetrationFromCleanStart ==
    (advanced = Walkers /\ NoOverlapAtStart)
    => \A i, j \in Walkers :
        i # j => ~Overlap(walking[i].nc3_position, walking[i].shape,
                          walking[j].nc3_position, walking[j].shape)

\* C4: through the resolution passes, and so when they are complete, each
\* walking object's accumulator is the minimum of the TOIs its queries
\* returned in this frame, and None when none returned a contact, in every
\* order in which the pairs are evaluated.
C4_AccumulatorIsMinimum ==
    \A i \in Walkers \ advanced :
        pc # "idle" =>
            walking[i].nc3_toi =
                IF found[i] = <<>> THEN None ELSE Some(SeqMin(found[i]))

C4_Witness ==
    /\ pc = "update_positions_walking"
    /\ \E i \in Walkers \ advanced :
        /\ Len(found[i]) >= 2
        /\ RatLt(found[i][1], found[i][2])
        /\ walking[i].nc3_toi = Some(found[i][1])

\* C5: combine_toi(t_new) sets an empty accumulator to t_new and a full one
\* to min(current, t_new), and leaves every other field of the object as
\* it was.
C5_CombineToi ==
    [][\A i \in Walkers :
          (InResolution /\ Len(found'[i]) = Len(found[i]) + 1)
          => walking'[i] =
               [walking[i] EXCEPT !.nc3_toi =
                   IF @ = None THEN Some(Last(found'[i]))
                   ELSE IF RatLe(Unwrap(@), Last(found'[i])) THEN @
                   ELSE Some(Last(found'[i]))]]_vars

C5_Witness ==
    \E i \in Walkers \ advanced :
        /\ Len(found[i]) = 2
        /\ RatLt(found[i][2], found[i][1])
        /\ walking[i].nc3_toi = Some(found[i][2])

\* C6: for all TOIs a and b found in a frame, combining a then b into an
\* empty accumulator equals combining b then a, the result is min(a, b),
\* and combining a or b once more changes nothing.
FoundValues == UNION {{found[i][k] : k \in 1..Len(found[i])} : i \in Walkers}

C6_CombineCommutativeIdempotent ==
    \A i \in Walkers : \A a, b \in FoundValues :
        LET empty == [walking[i] EXCEPT !.nc3_toi = None]
            ab == combine_toi(combine_toi(empty, a), b)
            ba == combine_toi(combine_toi(empty, b), a)
        IN  /\ ab = ba
            /\ ab.nc3_toi = Some(IF RatLe(a, b) THEN a ELSE b)
            /\ combine_toi(ab, a) = ab
            /\ combine_toi(ab, b) = ab

C6_Witness ==
    \E a, b \in FoundValues : RatLt(a, b) /\ RatLt(RatInt(0), a)

\* C7: the advancement of a walking object translates its position by
\* velocity * t0 when its accumulator holds t0 < dt, by velocity * dt when
\* the accumulator is empty or holds t0 >= dt, and never by anything else.
C7_AdvanceClamps ==
    [][\A i \in Walkers :
          i \in advanced' \ advanced
          => LET acc == walking[i].nc3_toi
                 dt == RatInt(time)
                 effective == IF acc = None THEN dt
                              ELSE IF RatLt(Unwrap(acc), dt) THEN Unwrap(acc)
                              ELSE dt
             IN  walking'[i].nc3_position =
                   RatAdd(walking[i].nc3_position,
                          RatScale(walking[i].nc3_velocity, effective))]_vars

C7_Witness ==
    \E i \in advanced :
        /\ found[i] # <<>>
        /\ walking[i].nc3_velocity # 0
        /\ RatLt(RatInt(0), SeqMin(found[i]))
        /\ RatLt(SeqMin(found[i]), RatInt(time))
        /\ walking[i].nc3_position =
             RatAdd(startPos[i],
                    RatScale(walking[i].nc3_velocity, SeqMin(found[i])))

\* C8: when the pairwise checks of a frame begin, and between frames, every
\* walking object's accumulator is None.
C8_AccumulatorEmptyAtFrameStart ==
    (pc = "idle" \/ (doneObst = {} /\ doneWalk = {}))
    => \A i \in Walkers : walking[i].nc3_toi = None

C8_Witness ==
    /\ frame = 2
    /\ pc = "process_collisions_walking_obstaicals"
    /\ doneObst = {}
    /\ \E i \in Walkers : walking[i].nc3_position[2] # 1

\* C9: the moving-vs-moving resolution combines the one TOI the query
\* returned, unscaled, into both participants: each accumulator becomes
\* min(its previous value, toi), whatever the two speeds are.
C9_SymmetricResolution ==
    [][\A i, j \in Walkers :
          (/\ i # j
           /\ {i, j} \in doneWalk' \ doneWalk
           /\ found'[i] # found[i])
          => /\ Last(found'[i]) = Last(found'[j])
             /\ walking'[i].nc3_toi = MinInto(walking[i].nc3_toi, Last(found'[i]))
             /\ walking'[j].nc3_toi = MinInto(walking[j].nc3_toi, Last(found'[i]))]_vars

C9_Witness ==
    \E i, j \in Walkers :
        /\ i # j
        /\ {i, j} \in doneWalk
        /\ advanced = {}
        /\ walking[i].nc3_velocity = 0
        /\ found[i] # <<>>
        /\ found[j] # <<>>
        /\ RatLt(RatInt(0), Last(found[i]))
        /\ walking[i].nc3_toi = Some(Last(found[i]))
        /\ walking[j].nc3_toi = Some(Last(found[i]))

\* C10: the moving-vs-obstacle resolution combines the TOI into the walking
\* object's accumulator alone: no step of the frame driver changes an
\* obstacle, and that step changes no other walking object.
C10_ObstacleUntouched ==
    [][/\ obstacle' = obstacle
       /\ \A i \in Walkers, j \in Obstacles :
            <<i, j>> \in doneObst' \ doneObst
            => /\ \A k \in Walkers \ {i} : walking'[k] = walking[k]
               /\ found'[i] # found[i]
                    => walking'[i] =
                         [walking[i] EXCEPT
                             !.nc3_toi = MinInto(@, Last(found'[i]))]
               /\ found'[i] = found[i] => walking'[i] = walking[i]]_vars

C10_Witness ==
    \E i \in Walkers, j \in Obstacles :
        /\ <<i, j>> \in doneObst
        /\ pc = "process_collisions_walking_obstaicals"
        /\ Len(found[i]) = 1
        /\ RatLt(RatInt(0), found[i][1])
        /\ walking[i].nc3_toi = Some(found[i][1])

\* C11: the TOI query and the resolution steps change nothing but
\* accumulators: until a walking object is advanced its position is the one
\* it had when the frame began, and no step of the two resolution passes
\* changes a position, a velocity, a shape or an obstacle.
C11_QueriesReadStartOfFramePoses ==
    /\ [](\A i \in Walkers \ advanced : walking[i].nc3_position = startPos[i])
    /\ [][InResolution =>
            /\ obstacle' = obstacle
            /\ \A i \in Walkers :
                 walking'[i] = [walking[i] EXCEPT !.nc3_toi = walking'[i].nc3_toi]]_vars

C11_Witness ==
    /\ pc = "update_positions_walking"
    /\ advanced = {}
    /\ \A i \in Walkers :
        /\ Len(found[i]) = 2
        /\ walking[i].nc3_toi # None
        /\ walking[i].nc3_velocity # 0
        /\ walking[i].nc3_position = startPos[i]

\* ------------------------------------------- the query as a function
\* horizons the query is asked with (the frame's dt and one beyond)
Horizons == 0..(MaxDt + 1)

\* the pairs of objects of the current state the query can be asked of
QueryPairs ==
    {<<walking[i], obstacle[j]>> : i \in Walkers, j \in Obstacles}
        \cup {<<walking[q[1]], walking[q[2]]>> :
                 q \in {r \in Walkers \X Walkers : r[1] # r[2]}}

\* centre of a relative to b after both moved for h at their velocities
CenterAt(a, b, h) ==
    RatAdd(RatSub(nc3_position(a), nc3_position(b)),
           RatScale(nc3_velocity(a) - nc3_velocity(b), h))

RadiusSum(a, b) == RatInt(a.shape.radius + b.shape.radius)

\* the two shapes touch or overlap after moving for h
ContactAt(a, b, h) == RatLe(RatAbs(CenterAt(a, b, h)), RadiusSum(a, b))

\* the swept shapes are apart during the whole of [0, h]: apart at 0 and
\* at h, with a on the same side of b
NoContactWithin(a, b, h) ==
    /\ ~ContactAt(a, b, RatInt(0))
    /\ ~ContactAt(a, b, h)
    /\ CenterAt(a, b, RatInt(0))[1] * CenterAt(a, b, h)[1] > 0

\* a moves toward b
Closing(a, b) ==
    CenterAt(a, b, RatInt(0))[1] * (nc3_velocity(a) - nc3_velocity(b)) < 0

C15_EqualVelocitiesNoContact ==
    pc = "idle" =>
        \A p \in QueryPairs : \A h \in Horizons :
            nc3_velocity(p[1]) = nc3_velocity(p[2])
                => get_collision_with(p[1], p[2], RatInt(h)) = None

\* a frame in which two walking objects at the same place with the same
\* nonzero velocity have been queried and are left without an accumulator
C15_Witness ==
    /\ pc = "update_positions_walking"
    /\ advanced = {}
    /\ time > 0
    /\ \E i \in Walkers : \E j \in Walkers \ {i} :
        /\ walking[i].nc3_velocity = walking[j].nc3_velocity
        /\ walking[i].nc3_velocity # 0
        /\ walking[i].nc3_position = walking[j].nc3_position
        /\ found[i] = <<>>
        /\ found[j] = <<>>
        /\ walking[i].nc3_toi = None

\* the query's answer t is the first contact of objects that start apart:
\* within the horizon, the shapes exactly touching at t, a still on the
\* side of b it started on
EarliestContact(a, b, h, q) ==
    /\ q # None
    /\ RatLt(RatInt(0), Unwrap(q))
    /\ RatLe(Unwrap(q), h)
    /\ RatAbs(CenterAt(a, b, Unwrap(q))) = RadiusSum(a, b)
    /\ CenterAt(a, b, RatInt(0))[1] * CenterAt(a, b, Unwrap(q))[1] > 0

Entities == ({"WalkingObject"} \X Walkers) \cup ({"ObstacleObject"} \X Obstacles)

EntityOf(e) == IF e[1] = "WalkingObject" THEN walking[e[2]] ELSE obstacle[e[2]]

\* every unordered pair of distinct entities at least one of which moves
PairsToQuery ==
    {{a, b} : a \in {"WalkingObject"} \X Walkers, b \in Entities}
        \ {{e} : e \in Entities}

\* C20: in each frame every unordered pair of distinct walking objects and
\* every (walking object, obstacle) pair is queried exactly once, with the
\* frame's dt as horizon; nothing else is queried (no object against
\* itself, no obstacle against an obstacle); and an accumulator is set only
\* for an object one of whose queries returned a contact.
C20_EachPairQueriedOnce ==
    /\ \A q \in BagToSet(queryLog) :
        /\ CopiesIn(q, queryLog) = 1
        /\ q.max_toi = RatInt(time)
        /\ q.objs \in PairsToQuery
    /\ (pc = "update_positions_walking" \/ (pc = "idle" /\ frame > 0))
          => {q.objs : q \in BagToSet(queryLog)} = PairsToQuery
    /\ advanced = {} =>
          \A i \in Walkers :
              walking[i].nc3_toi # None =>
                  \E q \in BagToSet(queryLog) :
                      /\ <<"WalkingObject", i>> \in q.objs
                      /\ \E e \in q.objs \ {<<"WalkingObject", i>>} :
                            get_collision_with(walking[i], EntityOf(e), q.max_toi)
                                # None

\* both passes are through: every pair is in the log, one walking object
\* has an accumulator from a contact and the other, whose queries returned
\* none, has not
C20_Witness ==
    /\ pc = "update_positions_walking"
    /\ advanced = {}
    /\ time > 0
    /\ BagCardinality(queryLog) = Cardinality(PairsToQuery)
    /\ \E i \in Walkers : walking[i].nc3_toi # None
    /\ \E i \in Walkers : walking[i].nc3_toi = None /\ walking[i].nc3_velocity # 0

\* ------------------------------------------------ the tests' scenarios
\* walking object i as it stood when the frame began
AtStart(i) == [walking[i] EXCEPT !.nc3_position = startPos[i]]

\* C14: two balls of radius r with centres d apart, d > 2r, closing in
\* head-on at combined speed v > 0, queried with an unbounded horizon, get
\* (d - 2r) / v: 4 for two unit balls 10 apart each at speed 1 toward the
\* other, 8 for a unit ball at speed 1 toward a unit-ball obstacle 10 away.
C14_HeadOnTimeOfImpact ==
    pc = "idle" =>
        /\ \A p \in QueryPairs :
            LET d == RatAbs(CenterAt(p[1], p[2], RatInt(0)))
                gap == RatSub(d, RadiusSum(p[1], p[2]))
                v == Abs(nc3_velocity(p[1]) - nc3_velocity(p[2]))
            IN  (p[1].shape.radius = p[2].shape.radius
                    /\ RatLt(RadiusSum(p[1], p[2]), d)
                    /\ Closing(p[1], p[2]))
                  => get_collision_with(p[1], p[2], F32_MAX)
                        = Some(Rat(gap[1], gap[2] * v))
        /\ (/\ walking[1].nc3_position = RatInt(0)
            /\ walking[1].nc3_velocity = 1
            /\ walking[2].nc3_position = RatInt(10)
            /\ walking[2].nc3_velocity = -1)
              => get_collision_with(walking[1], walking[2], F32_MAX)
                    = Some(RatInt(4))
        /\ \A j \in Obstacles :
            (/\ walking[1].nc3_position = RatInt(0)
             /\ walking[1].nc3_velocity = 1
             /\ obstacle[j].nc3_position = RatInt(10))
              => get_collision_with(walking[1], obstacle[j], F32_MAX)
                    = Some(RatInt(8))

\* the two tests' objects in one frame of 100 seconds: the first walking
\* object found the obstacle at 8 and the other walking object at 4
C14_Witness ==
    /\ pc = "update_positions_walking"
    /\ advanced = {}
    /\ time = 100
    /\ walking[1].nc3_position = RatInt(0) /\ walking[1].nc3_velocity = 1
    /\ walking[2].nc3_position = RatInt(10) /\ walking[2].nc3_velocity = -1
    /\ obstacle[1].nc3_position = RatInt(10)
    /\ found[1] = <<RatInt(8), RatInt(4)>>
    /\ get_collision_with(walking[1], walking[2], F32_MAX) = Some(RatInt(4))
    /\ get_collision_with(walking[1], obstacle[1], F32_MAX) = Some(RatInt(8))

\* unit ball A at x = 0 with velocity (1,0,0), unit ball B at x = 10 with
\* velocity (-1,0,0), no obstacle within reach, dt = 100
Scenario17 ==
    /\ frame > 0
    /\ time = 100
    /\ startPos[1] = RatInt(0) /\ walking[1].nc3_velocity = 1
    /\ startPos[2] = RatInt(10) /\ walking[2].nc3_velocity = -1
    /\ \A i \in Walkers : walking[i].shape = Ball(1)
    /\ \A i \in Walkers : \A j \in Obstacles :
          /\ obstacle[j].shape = Ball(1)
          /\ NoContactWithin(AtStart(i), obstacle[j], RatInt(time))

\* C17: in that frame both accumulators hold 4 once the pairs are resolved,
\* and after the advancement pass A is at x = 4 and B at x = 6, exactly
\* touching and not overlapping, with both accumulators none.
C17_EndToEndHeadOn ==
    Scenario17 =>
        /\ (pc = "update_positions_walking" /\ advanced = {})
              => \A i \in Walkers : walking[i].nc3_toi = Some(RatInt(4))
        /\ pc = "idle"
              => /\ walking[1].nc3_position = RatInt(4)
                 /\ walking[2].nc3_position = RatInt(6)
                 /\ Touching(walking[1].nc3_position, walking[1].shape,
                             walking[2].nc3_position, walking[2].shape)
                 /\ ~Overlap(walking[1].nc3_position, walking[1].shape,
                             walking[2].nc3_position, walking[2].shape)
                 /\ \A i \in Walkers : walking[i].nc3_toi = None

C17_Witness ==
    /\ Scenario17
    /\ pc = "idle"
    /\ advanced = Walkers
    /\ found = [i \in Walkers |-> <<RatInt(4)>>]
    /\ walking[1].nc3_position = RatInt(4)
    /\ walking[2].nc3_position = RatInt(6)

\* every query of this frame that involves walking object i returns none
NoContactThisFrame(i) ==
    /\ \A j \in Obstacles :
          get_collision_with(AtStart(i), obstacle[j], RatInt(time)) = None
    /\ \A k \in Walkers \ {i} :
          get_collision_with(AtStart(i), AtStart(k), RatInt(time)) = None

\* the test's objects: a walking unit ball at the origin at speed 1 toward
\* a unit-ball obstacle 10 away (true time of impact 8), the other walking
\* object keeping its distance, in a frame of 1 second
Scenario18 ==
    /\ frame > 0
    /\ time = 1
    /\ startPos[1] = RatInt(0) /\ walking[1].nc3_velocity = 1
    /\ startPos[2] = RatInt(10) /\ walking[2].nc3_velocity >= 0
    /\ obstacle[1].nc3_position = RatInt(10)

C19_FailedQueryIsNoContact ==
    /\ pc # "panicked"
    /\ (pc = "idle" /\ frame > 0) =>
          /\ doneObst = AllObstPairs
          /\ doneWalk = AllWalkPairs
          /\ advanced = Walkers

\* --------------------------------------------- the order of the passes
\* walking object i as the frame found it: at its start position, with an
\* empty accumulator
FrameStart(i) ==
    [walking[i] EXCEPT !.nc3_position = startPos[i], !.nc3_toi = None]

\* the walking objects after the moving-vs-moving pass alone, run on the
\* objects as the frame found them
AfterWalkingPassFirst ==
    LET RECURSIVE pass(_, _)
        pass(w, pairs) ==
            IF pairs = {} THEN w
            ELSE LET pr == CHOOSE x \in pairs : TRUE
                     i == CHOOSE x \in pr : TRUE
                     j == CHOOSE x \in pr \ {i} : TRUE
                     collision == get_collision_with(w[i], w[j], RatInt(time))
                     res == IF IsSome(collision)
                            THEN collide_with_walking(w[i], w[j], Unwrap(collision))
                            ELSE <<w[i], w[j]>>
                 IN  pass([w EXCEPT ![i] = res[1], ![j] = res[2]], pairs \ {pr})
    IN  pass([i \in Walkers |-> FrameStart(i)], AllWalkPairs)

\* ... and after the moving-vs-obstacle pass run second
AfterObstaclePassSecond ==
    LET RECURSIVE pass(_, _)
        pass(w, pairs) ==
            IF pairs = {} THEN w
            ELSE LET pr == CHOOSE x \in pairs : TRUE
                     collision == get_collision_with(w[pr[1]], obstacle[pr[2]],
                                                     RatInt(time))
                     res == IF IsSome(collision)
                            THEN collide_with_obstacle(w[pr[1]], obstacle[pr[2]],
                                                       Unwrap(collision))
                            ELSE <<w[pr[1]], obstacle[pr[2]]>>
                 IN  pass([w EXCEPT ![pr[1]] = res[1]], pairs \ {pr})
    IN  pass(AfterWalkingPassFirst, AllObstPairs)

\* C21: the order of the two resolution passes is immaterial: the
\* accumulators system_walking_default leaves before advancement, and the
\* positions it leaves after advancement, are those of the moving-vs-moving
\* pass followed by the moving-vs-obstacle pass.
C21_PassOrderImmaterial ==
    /\ (pc = "update_positions_walking" /\ advanced = {}) =>
          \A i \in Walkers :
              walking[i].nc3_toi = AfterObstaclePassSecond[i].nc3_toi
    /\ (pc = "idle" /\ frame > 0) =>
          \A i \in Walkers :
              walking[i].nc3_position =
                  update_position_for_frame(AfterObstaclePassSecond[i],
                                            RatInt(time)).nc3_position

\* a frame in which a walking object found both the obstacle and the other
\* walking object, at different times, and has been advanced
C21_Witness ==
    /\ pc = "idle"
    /\ frame > 0
    /\ \E i \in Walkers :
        /\ Len(found[i]) = 2
        /\ found[i][1] # found[i][2]
        /\ walking[i].nc3_position # startPos[i]

C25_AccumulatorMonotone ==
    [][\A i \in Walkers :
          walking[i].nc3_toi # None =>
              IF CopiesIn(i, advanceLog') = CopiesIn(i, advanceLog) + 1
              THEN walking'[i].nc3_toi = None
              ELSE /\ walking'[i].nc3_toi # None
                   /\ RatLe(Unwrap(walking'[i].nc3_toi), Unwrap(walking[i].nc3_toi))]_vars

\* an accumulator that was lowered by a second contact
C25_Witness ==
    /\ InResolution \/ pc = "update_positions_walking"
    /\ \E i \in Walkers :
        /\ i \notin advanced
        /\ Len(found[i]) = 2
        /\ RatLt(found[i][2], found[i][1])
        /\ walking[i].nc3_toi = Some(found[i][2])

C27_DisplacementAlongVelocity ==
    \A i \in Walkers :
        LET d == RatSub(walking[i].nc3_position, startPos[i])
            v == walking[i].nc3_velocity
        IN  /\ d[1] * v >= 0
            /\ RatLe(RatAbs(d), RatInt(Abs(v) * time))
            /\ v = 0 => d = RatInt(0)

\* the end of a frame in which one object was stopped part of the way and
\* the other went the whole step
C27_Witness ==
    /\ pc = "idle"
    /\ time > 0
    /\ \E i \in Walkers :
        /\ walking[i].nc3_position # startPos[i]
        /\ RatLt(RatAbs(RatSub(walking[i].nc3_position, startPos[i])),
                 RatInt(Abs(walking[i].nc3_velocity) * time))
    /\ \E i \in Walkers :
        /\ walking[i].nc3_velocity < 0
        /\ walking[i].nc3_position
              = RatAdd(startPos[i], RatInt(walking[i].nc3_velocity * time))

\* C28: no step of the frame driver changes a walking object's velocity,
\* shape or shape offset; an object stopped short by clamping still has
\* its full velocity afterwards.
C28_VelocityAndShapeKept ==
    [][\A i \in Walkers :
          /\ walking'[i].nc3_velocity = walking[i].nc3_velocity
          /\ walking'[i].shape = walking[i].shape
          /\ walking'[i].shape_offset = walking[i].shape_offset]_vars

\* a second frame has ended for an object that was stopped short in it and
\* still moves
C28_Witness ==
    /\ pc = "idle"
    /\ frame = 2
    /\ time > 0
    /\ \E i \in Walkers :
        /\ found[i] # <<>>
        /\ walking[i].nc3_velocity # 0
        /\ RatLt(RatAbs(RatSub(walking[i].nc3_position, startPos[i])),
                 RatInt(Abs(walking[i].nc3_velocity) * time))

\* a walking object resting against an obstacle it moves towards
Resting(i) ==
    \E j \in Obstacles :
        /\ RatAbs(CenterAt(walking[i], obstacle[j], RatInt(0)))
              = RadiusSum(walking[i], obstacle[j])
        /\ Closing(walking[i], obstacle[j])

\* C29: a walking object that touches an obstacle with its velocity pointing
\* into it has accumulator 0 when the resolution passes of any later frame
\* are done, and no step of any frame moves it, whatever the frame durations.
C29_RestingIsFixpoint ==
    /\ [](\A i \in Walkers :
            (pc = "update_positions_walking" /\ i \notin advanced /\ Resting(i))
                => walking[i].nc3_toi = Some(RatInt(0)))
    /\ [][\A i \in Walkers :
            Resting(i) => walking'[i].nc3_position = walking[i].nc3_position]_vars

\* an object that came to rest against the obstacle and has been through a
\* further frame of positive duration
C29_Witness ==
    /\ pc = "idle"
    /\ frame = 2
    /\ time > 0
    /\ \E i \in Walkers :
        /\ Resting(i)
        /\ found[i] # <<>>
        /\ walking[i].nc3_position = startPos[i]

\* ------------------------------------------------ shapes
RECURSIVE Depth(_)
\* nesting depth of a ShapeType: 0 for a primitive, one more than its
\* deepest part for a Compound
Depth(shape) ==
    IF shape.kind # "Compound" THEN 0
    ELSE IF shape.parts = <<>> THEN 1
    ELSE LET depths == {Depth(shape.parts[k][2]) : k \in 1..Len(shape.parts)}
         IN  1 + CHOOSE d \in depths : \A e \in depths : e <= d

RECURSIVE LoweredFrom(_, _)
\* native is a backend shape of shape's kind holding shape's data or, for a
\* Compound, one part per entry in the same order with the entry's
\* transform and a lowering of the entry's shape
LoweredFrom(native, shape) ==
    /\ DOMAIN native = {"nc3", "shape"} \/ DOMAIN native = {"nc3", "shapes"}
    /\ native.nc3 = shape.kind
    /\ IF shape.kind = "Compound"
       THEN /\ Len(native.shapes) = Len(shape.parts)
            /\ \A k \in 1..Len(shape.parts) :
                  /\ native.shapes[k][1] = shape.parts[k][1]
                  /\ LoweredFrom(native.shapes[k][2], shape.parts[k][2])
       ELSE \A f \in DOMAIN shape \ {"kind"} : native.shape[f] = shape[f]

\* C23: the lowering of a ShapeType is a native shape of the same kind; a
\* Compound, nested to any depth, gives one part per entry, in order, with
\* the entry's transform and the lowering of the entry's shape; every one
\* of the ten variants has a lowering.
C23_LoweringRecursesThroughCompound ==
    nc3_shape_handle # None =>
        /\ LoweredFrom(Unwrap(nc3_shape_handle), shape_type)
        /\ Unwrap(nc3_shape_handle).nc3 \in {VariantNames[k] : k \in 1..10}

\* a Compound of two parts, one of them a Compound with a Compound inside,
\* has been lowered
C23_Witness ==
    /\ nc3_shape_handle # None
    /\ Depth(shape_type) = MaxDepth
    /\ Len(shape_type.parts) = 2
    /\ shape_type.parts[1] # shape_type.parts[2]
    /\ shape_type.parts[1][1] # shape_type.parts[2][1]

RECURSIVE EquivalentTree(_, _)
\* two ShapeTypes with the same tag and the same numeric fields or, for
\* Compounds, as many parts with the same transforms and equivalent shapes
\* in the same order
EquivalentTree(a, b) ==
    /\ a.kind = b.kind
    /\ DOMAIN a = DOMAIN b
    /\ IF a.kind = "Compound"
       THEN /\ Len(a.parts) = Len(b.parts)
            /\ \A k \in 1..Len(a.parts) :
                  /\ a.parts[k][1] = b.parts[k][1]
                  /\ EquivalentTree(a.parts[k][2], b.parts[k][2])
       ELSE \A f \in DOMAIN a : a[f] = b[f]

\* C24: a ShapeType read back from its serialized form is a tree equivalent
\* to the one written, of the same nesting depth; in particular a Compound
\* that contains a Compound.
C24_SerdeRoundTrip ==
    deserialized # None =>
        /\ EquivalentTree(shape_type, Unwrap(deserialized))
        /\ Depth(Unwrap(deserialized)) = Depth(shape_type)
        /\ ShapeType_deserialize(Unwrap(serialized))[2] = <<>>

\* a Compound of two different parts, one of them a Compound that itself
\* holds a part, has been written and read back
C24_Witness ==
    /\ deserialized # None
    /\ Depth(shape_type) >= 2
    /\ Len(shape_type.parts) = 2
    /\ shape_type.parts[1] # shape_type.parts[2]
    /\ \E k \in 1..2 :
          /\ shape_type.parts[k][2].kind = "Compound"
          /\ shape_type.parts[k][2].parts # <<>>

\* ------------------------------------------------ first-person controller
\* a step of fps_control_system
IsControlStep ==
    fps_pc \in {"update", "input_done"} /\ fps_pc' \in {"control_done", "physics"}

IsJump(e) == e.event = "Jump"
NotJump(e) == e.event # "Jump"

\* C30: fps_control_system sets the parent controller's custom velocity to
\* a Jump event's velocity only when the controller output reports
\* grounded, leaves it as it is otherwise, and leaves the pending
\* translation as the other events of the frame make it.
C30_JumpOnlyWhenGrounded ==
    [][IsControlStep =>
          LET jumps == SelectSeq(events, IsJump)
              others == fps_control_events(
                            [look |-> look_angles, velocity |-> custom_velocity,
                             translation |-> controller_translation],
                            SelectSeq(events, NotJump), output_grounded, time)
          IN  /\ custom_velocity' =
                    IF jumps # <<>> /\ output_grounded = Some(TRUE)
                    THEN jumps[Len(jumps)].v
                    ELSE custom_velocity
              /\ controller_translation' = others.translation]_vars

\* a jump was taken from the ground in a frame in which gravity or a
\* Translate event left a pending translation
C30_Witness ==
    /\ fps_pc \in {"control_done", "physics"}
    /\ output_grounded = Some(TRUE)
    /\ custom_velocity = jump_initial_velocity
    /\ controller_translation # None
    /\ controller_translation # Some(Vec3_ZERO)

====
